---- MODULE Spec2Model ----
(***************************************************************************)
(* pipe2py.modules.pipefetch: fetching one or more feeds and combining     *)
(* their entries into one lazy sequence, in a blocking variant (parser)    *)
(* and a Twisted variant (asyncParser).                                    *)
(*                                                                         *)
(* One behaviour of the model is one invocation of parser or asyncParser   *)
(* followed by the caller's consumption of the returned feed.  The lazy    *)
(* pipeline built by lines 116-120 (imap / generator / imap / imap /       *)
(* multiplex) does no work when it is built; the work happens inside the   *)
(* consumer's next() calls, which the model follows stage by stage.        *)
(***************************************************************************)
EXTENDS Integers, Sequences, FiniteSets, TLC

\* ---------------------------------------------------------------- bounds
MaxSources == 3
MaxEntries == 2
MaxFallback == 1
\* output records the first MaxOut entries received (an endless feed goes on)
MaxOut == MaxSources * MaxEntries + 2

\* ------------------------------------------------------------ the inputs
Locations == {"A", "B"}

\* What the collaborators make of one location: get_abspath rejects it
\* ("bad_path"), the read fails ("unreadable"), speedparser.parse fails
\* ("malformed"), or it is a feed of len entries ("ok"); inf marks a document
\* whose entry sequence never ends (its len entries repeat).  A location that
\* no source names is never looked at; it is given NoDoc.
NoDoc == [kind |-> "bad_path", len |-> 0, inf |-> FALSE]
Docs ==
    {[kind |-> k, len |-> 0, inf |-> FALSE] : k \in {"bad_path", "unreadable", "malformed"}}
    \cup {[kind |-> "ok", len |-> n, inf |-> FALSE] : n \in 0..MaxEntries}
    \cup {[kind |-> "ok", len |-> MaxEntries, inf |-> TRUE]}

SeqsUpTo(S, n) == UNION {[1..m -> S] : m \in 0..n}

FallbackFeeds == {[j \in 1..m |-> <<"item", j>>] : m \in 0..MaxFallback}

\* the two feed objects a result can hold
FallbackObj == "kwargs.feed"
MuxObj == "multiplex"
NoResult == <<"none", FALSE>>
NoItem == <<"none", "none">>

VARIABLES
    mode,        \* "parser" or "asyncParser": the function invoked
    urls,        \* the source list passed in
    skip,        \* the skip flag passed in
    kwargs_feed, \* kwargs['feed'], the caller's own sequence
    world,       \* what each location resolves, reads and parses to
    caller,      \* "init", "suspended" (at the yield), "returned", "failed"
    result,      \* the pair (feed, skip) handed to the caller
    retr,        \* asyncImap: per source "idle", "inflight", "done", "failed"
    completed,   \* asyncImap: the sources whose reads completed so far, in that order
    reordered,   \* whether the reads completed in another order than declared
    contents,    \* asyncParser: the list the yield evaluates to
    mux,         \* the multiplex iterator: live, next source, active document
    stage,       \* where inside a next() call the lazy pipeline stands
    item,        \* the value travelling through the pipeline stages
    consumer,    \* "waiting", "ready", "pulling", "exhausted", "error"
    output,      \* the entries the consumer has received
    outSrc,      \* for each received entry, the position of its source
    feedPos,     \* how many entries of kwargs['feed'] have been consumed
    yields,      \* how many times asyncParser reached its yield
    log          \* the collaborator calls made so far, <<operation, source>>

inputs == <<mode, urls, skip, kwargs_feed, world>>
asyncVars == <<retr, completed, reordered, contents, yields>>
vars == <<mode, urls, skip, kwargs_feed, world, caller, result, retr, completed, reordered,
          contents, mux, stage, item, consumer, output, outSrc, feedPos, yields, log>>

N == Len(urls)

NewMux == [live |-> TRUE, next |-> 1, active |-> FALSE, doc |-> "none", pos |-> 0]

Init ==
    /\ mode \in {"parser", "asyncParser"}
    /\ urls \in SeqsUpTo(Locations, MaxSources)
    /\ skip \in BOOLEAN
    /\ kwargs_feed \in FallbackFeeds
    /\ world \in [Locations -> Docs]
    /\ \A l \in Locations : (\A k \in 1..Len(urls) : urls[k] # l) => world[l] = NoDoc
    /\ caller = "init"
    /\ result = NoResult
    /\ retr = [k \in 1..Len(urls) |-> "idle"]
    /\ completed = <<>>
    /\ reordered = FALSE
    /\ contents = <<>>
    /\ mux = NewMux
    /\ stage = "idle"
    /\ item = NoItem
    /\ consumer = "waiting"
    /\ output = <<>>
    /\ outSrc = <<>>
    /\ feedPos = 0
    /\ yields = 0
    /\ log = <<>>

\* ------------------------------------------------------- the collaborators
\* utils.get_abspath: a source string to an absolute location
get_abspath(u) == <<"abs", u>>

\* urlopen(url).read() / tu.urlRead: the raw content found at a location
urlRead(loc) == <<"raw", loc[2]>>

\* speedparser.parse: raw content to a parsed document
parse(raw) == <<"doc", raw[2]>>

\* utils.gen_entries: the j-th entry of a parsed document
gen_entries(doc, j) == <<doc[2], ((j - 1) % world[doc[2]].len) + 1>>

\* whether a document's entry generator has a j-th entry
has_entry(doc, j) == world[doc[2]].inf \/ j <= world[doc[2]].len

\* ------------------------------------------------------------------ parser
\* the sources taken from the end of the list first
abs_urls_reversed == [k \in 1..N |-> get_abspath(urls[N + 1 - k])]

\* lines 86 and 116: imap(utils.get_abspath, urls) keeps the order of urls
abs_urls == [k \in 1..N |-> get_abspath(urls[k])]

Resolves(n) == [k \in 1..n |-> <<"resolve", k>>]
Reads(n) == [k \in 1..n |-> <<"read", k>>]

BadPaths == {k \in 1..N : world[urls[k]].kind = "bad_path"}
FirstBad == CHOOSE k \in BadPaths : \A j \in BadPaths : k <= j

\* the skip flag ignored: the retrieval path whatever it says
parser_feed_always_fetch(s) == MuxObj

\* lines 113-120: the feed the call builds; nothing is fetched here
parser_feed(s) == IF s THEN FallbackObj ELSE MuxObj

\* the flag of the pair always False
parser_result_flag_dropped(f, s) == <<f, FALSE>>

\* line 122
parser_result(f, s) == <<f, s>>

\* contents built as a list: every source resolved and read inside the call
parser_eager_contents ==
    /\ mode = "parser"
    /\ caller = "init"
    /\ result' = parser_result(parser_feed(skip), skip)
    /\ log' = IF parser_feed(skip) = FallbackObj
              THEN Append(log, <<"get_feed", 0>>)
              ELSE log \o Resolves(N) \o Reads(N)
    /\ mux' = NewMux
    /\ caller' = "returned"
    /\ consumer' = "ready"
    /\ UNCHANGED <<inputs, asyncVars, stage, item, output, outSrc, feedPos>>

\* the caller's feed copied into a list by the call: its entries are taken
\* from the caller's sequence before the pair is returned
parser_drains_fallback ==
    /\ mode = "parser"
    /\ caller = "init"
    /\ result' = parser_result(parser_feed(skip), skip)
    /\ log' = IF parser_feed(skip) = FallbackObj
              THEN Append(log, <<"get_feed", 0>>) ELSE log
    /\ kwargs_feed' = IF parser_feed(skip) = FallbackObj THEN <<>> ELSE kwargs_feed
    /\ mux' = NewMux
    /\ caller' = "returned"
    /\ consumer' = "ready"
    /\ UNCHANGED <<mode, urls, skip, world, asyncVars, stage, item, output, outSrc,
                   feedPos>>

\* lines 113-122: the call; it builds the lazy feed and returns the pair
parser ==
    /\ mode = "parser"
    /\ caller = "init"
    /\ result' = parser_result(parser_feed(skip), skip)
    /\ log' = IF parser_feed(skip) = FallbackObj
              THEN Append(log, <<"get_feed", 0>>) ELSE log
    /\ mux' = NewMux
    /\ caller' = "returned"
    /\ consumer' = "ready"
    /\ UNCHANGED <<inputs, asyncVars, stage, item, output, outSrc, feedPos>>

\* ------------------------------------------------------------ the consumer
\* the record of what the consumer received, kept to its first MaxOut entries
Received(seq, e) == IF Len(seq) < MaxOut THEN Append(seq, e) ELSE seq

\* the caller asks the returned feed for its next entry (result.next())
next_call ==
    /\ caller = "returned"
    /\ consumer \in {"ready", "error"}
    /\ stage = "idle"
    /\ consumer' = "pulling"
    /\ stage' = IF result[1] = FallbackObj THEN "fallback" ELSE "chain"
    /\ UNCHANGED <<inputs, asyncVars, caller, result, mux, item, output, outSrc,
                   feedPos, log>>

\* next() on the caller's own sequence, when that is what was returned
fallback_next ==
    /\ stage = "fallback"
    /\ stage' = "idle"
    /\ IF feedPos < Len(kwargs_feed)
       THEN /\ output' = Received(output, kwargs_feed[feedPos + 1])
            /\ outSrc' = Received(outSrc, 0)
            /\ feedPos' = feedPos + 1
            /\ consumer' = "ready"
       ELSE /\ consumer' = "exhausted"
            /\ UNCHANGED <<output, outSrc, feedPos>>
    /\ UNCHANGED <<inputs, asyncVars, caller, result, mux, item, log>>

\* -------------------------------------------------------- the lazy pipeline
\* an exception raised by a stage travels up through multiplex to the
\* consumer; the multiplex iterator is finished by it
Raise ==
    /\ mux' = [mux EXCEPT !.live = FALSE]
    /\ consumer' = "error"
    /\ stage' = "idle"
    /\ item' = NoItem

\* the source iterator is exhausted: StopIteration ends the combined feed
StopIteration ==
    /\ mux' = [mux EXCEPT !.live = FALSE, !.active = FALSE]
    /\ consumer' = "exhausted"
    /\ stage' = "idle"
    /\ item' = NoItem

\* utils.multiplex: one step of next() on the combined feed
multiplex_next ==
    /\ stage = "chain"
    /\ IF ~mux.live
       THEN StopIteration /\ UNCHANGED <<output, outSrc>>
       ELSE IF ~mux.active
       THEN /\ stage' = "entries"
            /\ UNCHANGED <<mux, item, consumer, output, outSrc>>
       ELSE IF has_entry(mux.doc, mux.pos + 1)
       THEN /\ output' = Received(output, gen_entries(mux.doc, mux.pos + 1))
            /\ outSrc' = Received(outSrc, mux.next - 1)
            /\ mux' = [mux EXCEPT !.pos = IF world[mux.doc[2]].inf
                                          THEN (mux.pos + 1) % world[mux.doc[2]].len
                                          ELSE mux.pos + 1]
            /\ consumer' = "ready"
            /\ stage' = "idle"
            /\ UNCHANGED item
       ELSE /\ mux' = [mux EXCEPT !.active = FALSE, !.doc = "none", !.pos = 0]
            /\ UNCHANGED <<stage, item, consumer, output, outSrc>>
    /\ UNCHANGED <<inputs, asyncVars, caller, result, feedPos, log>>

\* the last source left out: the feed ends one source early
abs_urls_next_drops_last ==
    /\ stage = "entries"
    /\ mode = "parser"
    /\ IF mux.next >= N
       THEN StopIteration /\ UNCHANGED log
       ELSE IF world[abs_urls[mux.next][2]].kind = "bad_path"
       THEN /\ Raise
            /\ log' = log \o <<<<"resolve", mux.next>>, <<"error", mux.next>>>>
       ELSE /\ item' = abs_urls[mux.next]
            /\ stage' = "urlopen"
            /\ log' = Append(log, <<"resolve", mux.next>>)
            /\ UNCHANGED <<mux, consumer>>
    /\ UNCHANGED <<inputs, asyncVars, caller, result, output, outSrc, feedPos>>

\* abs_urls built as a list: every source is resolved at the first pull, so a
\* later source's bad path fails the feed before the earlier sources' entries
abs_urls_next_eager ==
    /\ stage = "entries"
    /\ mode = "parser"
    /\ IF mux.next > N
       THEN StopIteration /\ UNCHANGED log
       ELSE IF BadPaths # {}
       THEN /\ Raise
            /\ log' = log \o Resolves(FirstBad) \o <<<<"error", FirstBad>>>>
       ELSE /\ item' = abs_urls[mux.next]
            /\ stage' = "urlopen"
            /\ log' = Append(log, <<"resolve", mux.next>>)
            /\ UNCHANGED <<mux, consumer>>
    /\ UNCHANGED <<inputs, asyncVars, caller, result, output, outSrc, feedPos>>

\* line 116: next(abs_urls) resolves the next source, or ends the feed
abs_urls_next ==
    /\ stage = "entries"
    /\ mode = "parser"
    /\ IF mux.next > N
       THEN StopIteration /\ UNCHANGED log
       ELSE IF world[abs_urls[mux.next][2]].kind = "bad_path"
       THEN /\ Raise
            /\ log' = log \o <<<<"resolve", mux.next>>, <<"error", mux.next>>>>
       ELSE /\ item' = abs_urls[mux.next]
            /\ stage' = "urlopen"
            /\ log' = Append(log, <<"resolve", mux.next>>)
            /\ UNCHANGED <<mux, consumer>>
    /\ UNCHANGED <<inputs, asyncVars, caller, result, output, outSrc, feedPos>>

\* the next source's read started along with this one: two reads in progress
contents_read_prefetch ==
    /\ stage = "urlopen"
    /\ stage' = "reading"
    /\ log' = IF mux.next < N
              THEN log \o <<<<"read", mux.next>>, <<"read", mux.next + 1>>>>
              ELSE Append(log, <<"read", mux.next>>)
    /\ UNCHANGED <<inputs, asyncVars, caller, result, mux, item, consumer, output,
                   outSrc, feedPos>>

\* line 117: urlopen(url).read() starts; the calling thread blocks in it
contents_read ==
    /\ stage = "urlopen"
    /\ stage' = "reading"
    /\ log' = Append(log, <<"read", mux.next>>)
    /\ UNCHANGED <<inputs, asyncVars, caller, result, mux, item, consumer, output,
                   outSrc, feedPos>>

\* a failed read swallowed: the source is left out and the next one is tried
contents_next_skip_failed ==
    /\ stage = "reading"
    /\ IF world[item[2]].kind = "unreadable"
       THEN /\ mux' = [mux EXCEPT !.next = mux.next + 1]
            /\ item' = NoItem
            /\ stage' = "entries"
            /\ log' = Append(log, <<"read_fail", mux.next>>)
            /\ UNCHANGED consumer
       ELSE /\ item' = urlRead(item)
            /\ stage' = "parse"
            /\ log' = Append(log, <<"read_done", mux.next>>)
            /\ UNCHANGED <<mux, consumer>>
    /\ UNCHANGED <<inputs, asyncVars, caller, result, output, outSrc, feedPos>>

\* line 117: the blocking read returns the content, or raises
contents_next ==
    /\ stage = "reading"
    /\ IF world[item[2]].kind = "unreadable"
       THEN /\ Raise
            /\ log' = log \o <<<<"read_fail", mux.next>>, <<"error", mux.next>>>>
       ELSE /\ item' = urlRead(item)
            /\ stage' = "parse"
            /\ log' = Append(log, <<"read_done", mux.next>>)
            /\ UNCHANGED <<mux, consumer>>
    /\ UNCHANGED <<inputs, asyncVars, caller, result, output, outSrc, feedPos>>

\* line 88: next(contents) on the list the yield returned, or the end of it
contents_list_next ==
    /\ stage = "entries"
    /\ mode = "asyncParser"
    /\ IF mux.next > Len(contents)
       THEN StopIteration
       ELSE /\ item' = contents[mux.next]
            /\ stage' = "parse"
            /\ UNCHANGED <<mux, consumer>>
    /\ UNCHANGED <<inputs, asyncVars, caller, result, output, outSrc, feedPos, log>>

\* a parse failure swallowed: the document is left out and the next is tried
parsed_next_skip_malformed ==
    /\ stage = "parse"
    /\ IF world[item[2]].kind = "malformed"
       THEN /\ mux' = [mux EXCEPT !.next = mux.next + 1]
            /\ item' = NoItem
            /\ stage' = "entries"
            /\ log' = Append(log, <<"parse", mux.next>>)
            /\ UNCHANGED consumer
       ELSE /\ item' = parse(item)
            /\ stage' = "gen_entries"
            /\ log' = Append(log, <<"parse", mux.next>>)
            /\ UNCHANGED <<mux, consumer>>
    /\ UNCHANGED <<inputs, asyncVars, caller, result, output, outSrc, feedPos>>

\* a parse failure taken for an empty document: the source gives no entries
parsed_next_malformed_as_empty ==
    /\ stage = "parse"
    /\ item' = parse(item)
    /\ stage' = "gen_entries"
    /\ log' = Append(log, <<"parse", mux.next>>)
    /\ UNCHANGED <<mux, consumer>>
    /\ UNCHANGED <<inputs, asyncVars, caller, result, output, outSrc, feedPos>>

\* lines 88 and 118: speedparser.parse on the content just obtained
parsed_next ==
    /\ stage = "parse"
    /\ IF world[item[2]].kind = "malformed"
       THEN /\ Raise
            /\ log' = log \o <<<<"parse", mux.next>>, <<"error", mux.next>>>>
       ELSE /\ item' = parse(item)
            /\ stage' = "gen_entries"
            /\ log' = Append(log, <<"parse", mux.next>>)
            /\ UNCHANGED <<mux, consumer>>
    /\ UNCHANGED <<inputs, asyncVars, caller, result, output, outSrc, feedPos>>

\* lines 89 and 119: utils.gen_entries makes the document's entry generator,
\* which multiplex takes as its active sequence
entries_next ==
    /\ stage = "gen_entries"
    /\ mux' = [mux EXCEPT !.active = TRUE, !.doc = item, !.pos = 0,
                          !.next = mux.next + 1]
    /\ item' = NoItem
    /\ stage' = "chain"
    /\ UNCHANGED <<inputs, asyncVars, caller, result, consumer, output, outSrc,
                   feedPos, log>>

\* ------------------------------------------------------------- asyncParser
\* the branches of the skip test exchanged
asyncParser_feed_inverted(s) == IF s THEN MuxObj ELSE FallbackObj

\* lines 83-90: the feed the call builds
asyncParser_feed(s) == IF s THEN FallbackObj ELSE MuxObj

\* line 93
asyncParser_result(f, s) == <<f, s>>

\* tu.asyncImap / gatherResults: the contents in the order of the locations,
\* whatever the order c in which the reads completed
gatherResults(c) == [k \in 1..Len(c) |-> urlRead(abs_urls[k])]

\* the contents taken in the order the reads completed
returnValue_by_completion(c) ==
    /\ contents' = [i \in 1..Len(c) |-> urlRead(abs_urls[c[i]])]
    /\ log' = log
    /\ completed' = <<>>
    /\ reordered' = (\E i \in 1..Len(c) : c[i] # i)
    /\ result' = asyncParser_result(asyncParser_feed(skip), skip)
    /\ mux' = NewMux
    /\ caller' = "returned"
    /\ consumer' = "ready"

Parses(n) == [k \in 1..n |-> <<"parse", k>>]

\* parsed built as a list: every content parsed before the pair is returned
returnValue_eager_parse(c) ==
    /\ contents' = gatherResults(c)
    /\ log' = log \o Parses(Len(c))
    /\ completed' = <<>>
    /\ reordered' = (\E i \in 1..Len(c) : c[i] # i)
    /\ result' = asyncParser_result(asyncParser_feed(skip), skip)
    /\ mux' = NewMux
    /\ caller' = "returned"
    /\ consumer' = "ready"

\* lines 87-93: the generator resumes with the contents and returns the pair;
\* parsed, entries and feed are built lazily, no collaborator is called
returnValue(c) ==
    /\ contents' = gatherResults(c)
    /\ log' = log
    /\ completed' = <<>>
    /\ reordered' = (\E i \in 1..Len(c) : c[i] # i)
    /\ result' = asyncParser_result(asyncParser_feed(skip), skip)
    /\ mux' = NewMux
    /\ caller' = "returned"
    /\ consumer' = "ready"

\* the calls made while abs_urls is consumed one source at a time: resolve 1,
\* read 1, resolve 2, read 2, ...; a bad path (bad) stops before the n-th read
asyncImap_calls_interleaved(n, bad) ==
    [i \in 1..(IF bad THEN 2 * n - 1 ELSE 2 * n) |->
        IF i % 2 = 1 THEN <<"resolve", (i + 1) \div 2>> ELSE <<"read", i \div 2>>]

\* line 87, tu.asyncImap(tu.urlRead, abs_urls): the lazy abs_urls of line 86 is
\* drained first, resolving sources 1..n, and only then is a read issued for
\* each; when the n-th resolution fails (bad) no read is issued at all
asyncImap_calls(n, bad) ==
    IF bad THEN Resolves(n) ELSE Resolves(n) \o Reads(n)

\* the yield forgotten: the pair is returned while the reads are in flight
asyncParser_no_yield ==
    /\ mode = "asyncParser"
    /\ caller = "init"
    /\ IF asyncParser_feed(skip) = FallbackObj
       THEN /\ result' = asyncParser_result(asyncParser_feed(skip), skip)
            /\ log' = Append(log, <<"get_feed", 0>>)
            /\ caller' = "returned"
            /\ consumer' = "ready"
            /\ UNCHANGED <<retr, completed, reordered, contents, mux, yields>>
       ELSE IF BadPaths # {}
       THEN /\ log' = log \o Resolves(FirstBad) \o <<<<"error", FirstBad>>>>
            /\ caller' = "failed"
            /\ UNCHANGED <<result, retr, completed, reordered, contents, mux, consumer,
                           yields>>
       ELSE /\ log' = log \o Resolves(N) \o Reads(N)
            /\ retr' = [k \in 1..N |-> "inflight"]
            /\ contents' = <<>>
            /\ result' = asyncParser_result(asyncParser_feed(skip), skip)
            /\ mux' = NewMux
            /\ caller' = "returned"
            /\ consumer' = "ready"
            /\ UNCHANGED <<completed, reordered, yields>>
    /\ UNCHANGED <<inputs, stage, item, output, outSrc, feedPos>>

\* the reads issued one behind the other: only the first is started
asyncParser_serial ==
    /\ mode = "asyncParser"
    /\ caller = "init"
    /\ IF asyncParser_feed(skip) = FallbackObj
       THEN /\ result' = asyncParser_result(asyncParser_feed(skip), skip)
            /\ log' = Append(log, <<"get_feed", 0>>)
            /\ caller' = "returned"
            /\ consumer' = "ready"
            /\ UNCHANGED <<retr, completed, reordered, contents, mux, yields>>
       ELSE IF BadPaths # {}
       THEN /\ log' = log \o Resolves(FirstBad) \o <<<<"error", FirstBad>>>>
            /\ caller' = "failed"
            /\ UNCHANGED <<result, retr, completed, reordered, contents, mux, consumer,
                           yields>>
       ELSE /\ log' = log \o Resolves(N) \o Reads(IF N = 0 THEN 0 ELSE 1)
            /\ yields' = yields + 1
            /\ IF N = 0
               THEN returnValue(<<>>) /\ UNCHANGED retr
               ELSE /\ retr' = [k \in 1..N |-> IF k = 1 THEN "inflight" ELSE "idle"]
                    /\ caller' = "suspended"
                    /\ UNCHANGED <<result, completed, reordered, contents, mux,
                                   consumer>>
    /\ UNCHANGED <<inputs, stage, item, output, outSrc, feedPos>>

\* abs_urls consumed one source at a time: each read is issued as soon as its
\* own source is resolved, so a later source's bad path fails the call with
\* the earlier reads already in flight
asyncParser_lazy_resolve ==
    /\ mode = "asyncParser"
    /\ caller = "init"
    /\ IF asyncParser_feed(skip) = FallbackObj
       THEN /\ result' = asyncParser_result(asyncParser_feed(skip), skip)
            /\ log' = Append(log, <<"get_feed", 0>>)
            /\ caller' = "returned"
            /\ consumer' = "ready"
            /\ UNCHANGED <<retr, completed, reordered, contents, mux, yields>>
       ELSE IF BadPaths # {}
       THEN /\ log' = log \o asyncImap_calls_interleaved(FirstBad, TRUE)
                          \o <<<<"error", FirstBad>>>>
            /\ retr' = [k \in 1..N |-> IF k < FirstBad THEN "inflight" ELSE "idle"]
            /\ caller' = "failed"
            /\ UNCHANGED <<result, completed, reordered, contents, mux, consumer,
                           yields>>
       ELSE /\ log' = log \o asyncImap_calls_interleaved(N, FALSE)
            /\ yields' = yields + 1
            /\ IF N = 0
               THEN returnValue(<<>>) /\ UNCHANGED retr
               ELSE /\ retr' = [k \in 1..N |-> "inflight"]
                    /\ caller' = "suspended"
                    /\ UNCHANGED <<result, completed, reordered, contents, mux,
                                   consumer>>
    /\ UNCHANGED <<inputs, stage, item, output, outSrc, feedPos>>

\* lines 83-87: the call up to its yield.  With skip set the pair is returned
\* at once; otherwise every source is resolved, every read is issued and the
\* caller is left waiting on the gathered deferred.
asyncParser ==
    /\ mode = "asyncParser"
    /\ caller = "init"
    /\ IF asyncParser_feed(skip) = FallbackObj
       THEN /\ result' = asyncParser_result(asyncParser_feed(skip), skip)
            /\ log' = Append(log, <<"get_feed", 0>>)
            /\ caller' = "returned"
            /\ consumer' = "ready"
            /\ UNCHANGED <<retr, completed, reordered, contents, mux, yields>>
       ELSE IF BadPaths # {}
       THEN /\ log' = log \o asyncImap_calls(FirstBad, TRUE) \o <<<<"error", FirstBad>>>>
            /\ caller' = "failed"
            /\ UNCHANGED <<result, retr, completed, reordered, contents, mux, consumer,
                           yields>>
       ELSE /\ log' = log \o asyncImap_calls(N, FALSE)
            /\ yields' = yields + 1
            /\ IF N = 0
               THEN returnValue(<<>>) /\ UNCHANGED retr
               ELSE /\ retr' = [k \in 1..N |-> "inflight"]
                    /\ caller' = "suspended"
                    /\ UNCHANGED <<result, completed, reordered, contents, mux,
                                   consumer>>
    /\ UNCHANGED <<inputs, stage, item, output, outSrc, feedPos>>

\* the failure caught and the contents that did arrive returned as the feed
asyncParser_errback_partial(k) ==
    /\ contents' = [i \in 1..Len(completed) |-> urlRead(abs_urls[completed[i]])]
    /\ log' = Append(log, <<"error", k>>)
    /\ result' = asyncParser_result(asyncParser_feed(skip), skip)
    /\ mux' = NewMux
    /\ caller' = "returned"
    /\ consumer' = "ready"
    /\ UNCHANGED <<completed, reordered>>

\* lines 87-93: the yield raises the failure of source k's read into the
\* generator; nothing catches it, so the call fails and returns no pair
asyncParser_errback(k) ==
    /\ caller' = "failed"
    /\ log' = Append(log, <<"error", k>>)
    /\ UNCHANGED <<result, completed, reordered, contents, mux, consumer>>

\* tu.urlRead for source k completes.  A failure fails the gathered deferred at
\* once (the other reads go on, their results unused); the last success fires
\* it with the contents and the generator resumes.
url_read_done(k) ==
    /\ k \in 1..N
    /\ retr[k] = "inflight"
    /\ IF world[urls[k]].kind = "unreadable"
       THEN /\ retr' = [retr EXCEPT ![k] = "failed"]
            /\ IF caller = "suspended"
               THEN asyncParser_errback(k)
               ELSE UNCHANGED <<caller, log, result, completed, reordered, contents,
                                mux, consumer>>
       ELSE /\ retr' = [retr EXCEPT ![k] = "done"]
            /\ IF caller = "suspended" /\ \A j \in 1..N : j # k => retr[j] = "done"
               THEN returnValue(Append(completed, k))
               ELSE /\ completed' = Append(completed, k)
                    /\ UNCHANGED <<caller, result, reordered, contents, mux, consumer,
                                   log>>
    /\ UNCHANGED <<inputs, yields, stage, item, output, outSrc, feedPos>>

\* ------------------------------------------------------------- the claims
\* the entries of source k in document order (none when a stage of it fails)
SourceEntries(k) ==
    LET doc == parse(urlRead(get_abspath(urls[k])))
        n == IF world[urls[k]].inf THEN MaxOut ELSE world[urls[k]].len
    IN  [j \in 1..n |-> gen_entries(doc, j)]

RECURSIVE Merged(_)
\* the entries of sources 1..k, source after source
Merged(k) == IF k = 0 THEN <<>> ELSE Merged(k - 1) \o SourceEntries(k)

IsPrefix(s, t) == Len(s) <= Len(t) /\ s = SubSeq(t, 1, Len(s))

AllOk == \A k \in 1..N : world[urls[k]].kind = "ok"
AllFinite == \A k \in 1..N : ~world[urls[k]].inf
FetchOps == {"resolve", "read", "read_done", "read_fail", "parse", "error"}
Logged(op, k) == \E i \in 1..Len(log) : log[i] = <<op, k>>

\* C1: in both modes a call with skip set returns the pair (kwargs['feed'], TRUE):
\* the caller's own sequence, of which only the consumer's own pulls take
\* entries (none at the return), and no resolve, read or parse is ever made.
C1_SkipReturnsFallback ==
    (skip /\ caller # "init") =>
        /\ caller = "returned"
        /\ result = <<FallbackObj, TRUE>>
        /\ \A i \in 1..Len(log) : log[i][1] \notin FetchOps
        /\ \A k \in 1..N : retr[k] = "idle"
        /\ feedPos = Len(output)
        /\ output = SubSeq(kwargs_feed, 1, feedPos)
        /\ yields = 0

\* a skipping call of asyncParser has returned, with sources that would all
\* have failed and an empty fallback feed
C1_Witness ==
    /\ skip /\ caller = "returned" /\ mode = "asyncParser"
    /\ N = MaxSources /\ kwargs_feed = <<>> /\ consumer = "exhausted"
    /\ \A k \in 1..N : world[urls[k]].kind = "unreadable"

\* C2: in asyncParser without skip, whatever the order in which the reads
\* complete, the contents handed on are those of source 1, source 2, ... and
\* the entries delivered are the merged entries in declared source order.
C2_AsyncOrderIndependent ==
    (mode = "asyncParser" /\ ~skip /\ caller = "returned") =>
        /\ contents = [k \in 1..N |-> urlRead(get_abspath(urls[k]))]
        /\ IsPrefix(output, Merged(N))
        /\ (consumer = "exhausted" /\ AllOk) => output = Merged(N)

\* the second source's read completed first, and the feed was consumed whole
C2_Witness ==
    /\ mode = "asyncParser" /\ ~skip /\ consumer = "exhausted" /\ AllOk
    /\ N >= 2 /\ urls[1] # urls[2]
    /\ reordered
    /\ Len(output) >= 2 /\ output[1][1] # output[Len(output)][1]

\* C3: in parser without skip and with every stage succeeding, the entries
\* pulled are a prefix of the per-source entries concatenated in declared
\* order, and the whole of it once the feed is exhausted.
C3_SeqConcatenation ==
    (mode = "parser" /\ ~skip /\ AllOk) =>
        /\ IsPrefix(output, Merged(N))
        /\ consumer = "exhausted" => output = Merged(N)
        /\ Len(output) >= 1 => output[1] = Merged(N)[1]

\* three sources of two different feeds, consumed whole
C3_Witness ==
    /\ mode = "parser" /\ ~skip /\ AllOk /\ consumer = "exhausted"
    /\ N >= 3 /\ urls[1] # urls[2] /\ urls[3] = urls[1]
    /\ Len(output) >= 4

Unreadable == {k \in 1..N : world[urls[k]].kind = "unreadable"}
Raised == \E i \in 1..Len(log) : log[i][1] = "error"
LastSrc == IF outSrc = <<>> THEN 0 ELSE outSrc[Len(outSrc)]

\* C4: in either mode without skip, when the read of some source fails the
\* operation fails: asyncParser hands no result to its caller, and the feed
\* parser returned never ends normally (exhausted with no error raised).
C4_FailedReadFailsAll ==
    (~skip /\ Unreadable # {}) =>
        /\ mode = "asyncParser" => (result = NoResult /\ caller # "returned")
        /\ consumer = "exhausted" => Raised
        /\ \A k \in 1..N : Logged("read_fail", k) =>
              (Logged("error", k) /\ consumer # "ready")
        /\ \A k \in 1..N : retr[k] = "failed" => (Raised /\ caller = "failed")

\* parser: the first source gave its entries, then the second source's read
\* failed and the consumer got the error
C4_Witness ==
    /\ mode = "parser" /\ ~skip /\ N >= 2
    /\ world[urls[1]].kind = "ok" /\ world[urls[2]].kind = "unreadable"
    /\ consumer = "error" /\ Len(output) >= 1 /\ output = SourceEntries(1)
    /\ Logged("read_fail", 2)

\* C5: in parser without skip, between two pulls that each gave an entry no
\* resolve, read or parse has been made for a source after the one the last
\* entry came from (for no source at all before the first pull), and a source
\* is resolved only once every entry of the sources before it has been given.
C5_SeqLaziness ==
    (mode = "parser" /\ ~skip) =>
        /\ (consumer = "ready" /\ stage = "idle") =>
              \A i \in 1..Len(log) : log[i][2] <= LastSrc
        /\ \A k \in 2..N : Logged("resolve", k) =>
              /\ ~world[urls[k - 1]].inf
              /\ output = Merged(k - 1) \/ Len(output) > Len(Merged(k - 1))
        /\ \A i \in 1..Len(outSrc) : i > 1 => outSrc[i - 1] <= outSrc[i]

\* two sources, the first entry pulled and nothing else: the second source
\* has not been resolved, read or parsed
C5_Witness ==
    /\ mode = "parser" /\ ~skip /\ N = 2
    /\ world[urls[1]].kind = "ok" /\ world[urls[1]].len = 1 /\ ~world[urls[1]].inf
    /\ world[urls[2]].kind = "ok" /\ world[urls[2]].len >= 1
    /\ consumer = "ready" /\ stage = "idle" /\ Len(output) = 1
    /\ ~Logged("resolve", 2) /\ ~Logged("read", 2) /\ ~Logged("parse", 2)

\* C6: in asyncParser without skip the generator reaches its yield once, and
\* the pair is handed to the caller only when the read of every source has
\* completed successfully; none is handed over while a read is in flight.
C6_ResultAfterAllReads ==
    (mode = "asyncParser" /\ ~skip) =>
        /\ yields <= 1
        /\ caller = "suspended" => (yields = 1 /\ result = NoResult)
        /\ result # NoResult => caller = "returned"
        /\ caller = "returned" =>
              /\ yields = 1
              /\ \A k \in 1..N : retr[k] = "done"
              /\ Len(contents) = N
        /\ (\E k \in 1..N : retr[k] = "inflight") => result = NoResult

\* the caller is waiting at the yield with one read done and another in flight
C6_Witness ==
    /\ mode = "asyncParser" /\ ~skip /\ caller = "suspended" /\ N >= 2
    /\ \E j, k \in 1..N : retr[j] = "done" /\ retr[k] = "inflight"

\* C7: in both modes the path is chosen by the skip flag alone.  With skip the
\* pair holds kwargs['feed'] and no fetch work is ever done; without skip the
\* pair holds the combined feed and kwargs['feed'] is neither looked up,
\* returned nor consumed.  The flag of the pair is the flag passed in.
C7_OnePathBySkip ==
    /\ skip => \A i \in 1..Len(log) : log[i][1] \notin FetchOps
    /\ ~skip => (~Logged("get_feed", 0) /\ feedPos = 0 /\ result[1] # FallbackObj)
    /\ result # NoResult =>
          /\ result[2] = skip
          /\ result[1] = (IF skip THEN FallbackObj ELSE MuxObj)
          /\ skip <=> Logged("get_feed", 0)

\* asyncParser without skip, a non-empty kwargs['feed'] left alone while the
\* combined feed was consumed
C7_Witness ==
    /\ mode = "asyncParser" /\ ~skip /\ kwargs_feed # <<>>
    /\ consumer = "exhausted" /\ Len(output) >= 1 /\ result = <<MuxObj, FALSE>>

\* C8: in asyncParser without skip every read is started before the caller
\* waits and before any read has completed: no read is started after a
\* completion, and as soon as one source's read has been issued all have.
C8_AllReadsStartTogether ==
    (mode = "asyncParser" /\ ~skip) =>
        /\ (\E k \in 1..N : retr[k] # "idle") => \A k \in 1..N : retr[k] # "idle"
        /\ (caller = "suspended" /\ completed = <<>>) =>
              \A k \in 1..N : retr[k] = "inflight"
        /\ \A i \in 1..Len(completed) : retr[completed[i]] = "done"
        /\ caller \in {"suspended", "returned"} => \A k \in 1..N : Logged("read", k)

\* all the reads of a call with the most sources are in flight together
C8_Witness ==
    /\ mode = "asyncParser" /\ ~skip /\ N = MaxSources
    /\ \A k \in 1..N : retr[k] = "inflight"

InfSources == {k \in 1..N : world[urls[k]].inf}
FirstInf == CHOOSE k \in InfSources : \A j \in InfSources : k <= j

\* C9: without skip and with every stage succeeding, a consumer that keeps
\* pulling reaches the exhausted feed, having received every entry, when every
\* source's entry sequence is finite; when one is endless the feed is never
\* exhausted, the consumer goes on receiving entries for ever and none of them
\* comes from a source after the first endless one.
C9_ExhaustedIffAllFinite ==
    /\ (~skip /\ AllOk /\ AllFinite) ~> (consumer = "exhausted" /\ output = Merged(N))
    /\ []((~skip /\ AllOk /\ ~AllFinite) =>
            /\ consumer # "exhausted"
            /\ \A i \in 1..Len(outSrc) : outSrc[i] <= FirstInf)
    /\ []<>((~skip /\ AllOk /\ ~AllFinite) => consumer = "pulling")

\* a finite source, then an endless one, then a third: the consumer has
\* received MaxOut entries and the third source has not been touched
C9_Witness ==
    /\ ~skip /\ AllOk /\ N = 3 /\ InfSources = {2} /\ world[urls[1]].len >= 1
    /\ Len(output) = MaxOut /\ consumer = "ready"
    /\ outSrc[1] = 1 /\ outSrc[MaxOut] = 2 /\ ~Logged("parse", 3)

\* a stage of source k has been run and has failed
FailedAt(k) ==
    \/ Logged("resolve", k) /\ world[urls[k]].kind = "bad_path"
    \/ Logged("read", k) /\ world[urls[k]].kind = "unreadable" /\ stage # "reading"
    \/ Logged("parse", k) /\ world[urls[k]].kind = "malformed"

FailFast ==
    \A k \in 1..N : FailedAt(k) =>
        /\ log[Len(log)] = <<"error", k>>
        /\ consumer \in {"error", "pulling", "exhausted"}
        /\ ~mux.live
        /\ \A i \in 1..Len(log) : log[i][2] <= k

\* C10: in parser without skip, a failed resolve, read or parse of source k
\* reaches the consumer as an error in the step in which it happens and
\* finishes the feed: from then on no collaborator is called for any source
\* and no entry is given, whatever the consumer does.
C10_SeqFailFast ==
    [][(mode = "parser" /\ ~skip) =>
          /\ FailFast'
          /\ Raised => (log' = log /\ output' = output /\ mux'.next = mux.next)]_vars

\* the second of three sources failed to parse; the consumer pulled again
\* after the error and found the feed at its end, the third source untouched
C10_Witness ==
    /\ mode = "parser" /\ ~skip /\ N = 3
    /\ world[urls[1]].kind = "ok" /\ world[urls[2]].kind = "malformed"
    /\ world[urls[3]].kind = "ok" /\ world[urls[3]].len >= 1
    /\ Raised /\ consumer = "exhausted"
    /\ Len(output) >= 1 /\ output = SourceEntries(1)
    /\ ~Logged("resolve", 3)

Malformed == {k \in 1..N : world[urls[k]].kind = "malformed"}

\* C11: in asyncParser without skip, a failed parse of a source's content
\* reaches the consumer as an error in the next() call that parses it and
\* finishes the feed: the feed never ends normally with a malformed source
\* left out.
C11_AsyncParseFailureFails ==
    (mode = "asyncParser" /\ ~skip) =>
        /\ \A k \in Malformed : Logged("parse", k) =>
              /\ log[Len(log)] = <<"error", k>>
              /\ consumer \in {"error", "pulling", "exhausted"}
              /\ ~mux.live
              /\ output = Merged(k - 1)
        /\ (consumer = "exhausted" /\ Malformed # {}) => Raised
        /\ (consumer = "exhausted" /\ ~Raised) => output = Merged(N)

\* both reads succeeded and the pair was delivered; the first source gave
\* its entries and the parse of the second failed in the consumer's pull
C11_Witness ==
    /\ mode = "asyncParser" /\ ~skip /\ N >= 2 /\ caller = "returned"
    /\ world[urls[1]].kind = "ok" /\ 2 \in Malformed
    /\ consumer = "error" /\ Len(output) >= 1 /\ output = SourceEntries(1)
    /\ Logged("error", 2)

\* C12: in asyncParser without skip no content is parsed before the pair is
\* delivered nor at its delivery; between two pulls the only sources parsed
\* are those up to the one the last entry came from, and source k is parsed
\* only once every entry of the sources before it has been given.
C12_AsyncParseDeferred ==
    (mode = "asyncParser" /\ ~skip) =>
        /\ caller # "returned" => \A i \in 1..Len(log) : log[i][1] # "parse"
        /\ (consumer = "ready" /\ stage = "idle") =>
              \A i \in 1..Len(log) : log[i][1] = "parse" => log[i][2] <= LastSrc
        /\ \A k \in 1..N : Logged("parse", k) =>
              /\ \A j \in 1..(k - 1) : ~world[urls[j]].inf
              /\ output = Merged(k - 1) \/ Len(output) > Len(Merged(k - 1))

\* every read is done and the pair delivered; the consumer has pulled the
\* only entry of the first source and the second content is still unparsed
C12_Witness ==
    /\ mode = "asyncParser" /\ ~skip /\ N = 2 /\ caller = "returned"
    /\ \A k \in 1..N : retr[k] = "done"
    /\ world[urls[1]].len = 1 /\ world[urls[2]].kind = "ok" /\ world[urls[2]].len >= 1
    /\ consumer = "ready" /\ stage = "idle" /\ Len(output) = 1
    /\ Logged("parse", 1) /\ ~Logged("parse", 2)

\* C13: in asyncParser without skip, in every state in which a read has
\* failed the call has failed with it, whatever reads are still in flight;
\* no pair, contents or entry ever reaches the caller afterwards, and a read
\* still in flight is left to complete.
C13_AsyncFailFast ==
    (mode = "asyncParser" /\ ~skip /\ \E k \in 1..N : retr[k] = "failed") =>
        /\ caller = "failed"
        /\ result = NoResult /\ contents = <<>>
        /\ consumer = "waiting" /\ output = <<>> /\ stage = "idle"
        /\ \A k \in 1..N : retr[k] # "idle"
        /\ \A k \in 1..N : retr[k] = "inflight" => ENABLED url_read_done(k)
        /\ \E k \in 1..N : retr[k] = "failed" /\ Logged("error", k)

\* three reads: one failed and failed the call, one succeeded, and another
\* failed as well, which it can only have done after the call had failed
C13_Witness ==
    /\ mode = "asyncParser" /\ ~skip /\ N = 3 /\ caller = "failed"
    /\ \E i, j, k \in 1..N :
          /\ i # j
          /\ retr[i] = "failed" /\ retr[j] = "failed" /\ retr[k] = "done"
          /\ Logged("error", i) /\ ~Logged("error", j)

C15_SeqErrorAfterPrefix ==
    [][(mode = "parser" /\ ~skip) =>
          \A k \in 1..N :
             /\ Logged("error", k)' =>
                   /\ FailedAt(k)'
                   /\ output' = Merged(k - 1)
                   /\ k = 1 => output' = <<>>
                   /\ \A i \in 1..Len(outSrc') : outSrc'[i] < k
             /\ (~Logged("error", k) /\ Logged("error", k)') =>
                   /\ consumer = "pulling" /\ consumer' = "error"
                   /\ output' = output
                   /\ (output # <<>>) => LastSrc < k]_vars

\* the read of the second source failed: the consumer holds the error and
\* every entry of the first source, and nothing else
C15_Witness ==
    /\ mode = "parser" /\ ~skip /\ N >= 2
    /\ world[urls[1]].kind = "ok" /\ world[urls[1]].len = MaxEntries
    /\ 2 \in Unreadable
    /\ consumer = "error" /\ Logged("read_fail", 2) /\ Logged("error", 2)
    /\ Len(output) = MaxEntries /\ output = SourceEntries(1)

\* the sources whose read has started and has neither returned nor raised
InProgress ==
    {k \in 1..N : Logged("read", k) /\ ~Logged("read_done", k) /\ ~Logged("read_fail", k)}

\* C16: in parser without skip at most one read is in progress in any state
\* (the one the calling thread is blocked in); the resolves, the reads and
\* the parses each happen in strictly increasing source order, hence at most
\* once per source; and a source's read starts only after every earlier
\* source's read has returned.
C16_SeqOneAtATime ==
    (mode = "parser" /\ ~skip) =>
        /\ Cardinality(InProgress) <= 1
        /\ InProgress = (IF stage = "reading" THEN {mux.next} ELSE {})
        /\ \A i, j \in 1..Len(log) :
              (i < j /\ log[i][1] = log[j][1]
                     /\ log[i][1] \in {"resolve", "read", "parse"}) =>
                 log[i][2] < log[j][2]
        /\ \A k \in 1..N : Logged("read", k) =>
              \A i \in 1..(k - 1) : Logged("read_done", i)
        /\ \A k \in 1..N : Logged("parse", k) => Logged("read_done", k)
        /\ \A k \in 1..N : Logged("read", k) => Logged("resolve", k)

\* the calling thread is blocked in the read of the third source, the first
\* two having been resolved, read and parsed once each
C16_Witness ==
    /\ mode = "parser" /\ ~skip /\ N = 3
    /\ stage = "reading" /\ mux.next = 3 /\ InProgress = {3}
    /\ \A k \in 1..2 : Logged("resolve", k) /\ Logged("read_done", k) /\ Logged("parse", k)
    /\ ~Logged("parse", 3)

\* C17: no step of either mode, on either path, from the call through the
\* consumption of the feed, changes the source list or the caller's feed;
\* and the contents asyncParser's reads deliver are, whatever the order of
\* completion, each the content of its own source's location, so that equal
\* locations give equal contents.
C17_InputsReadOnly ==
    [][/\ urls' = urls
       /\ kwargs_feed' = kwargs_feed
       /\ (mode = "asyncParser" /\ ~skip /\ caller # "returned" /\ caller' = "returned") =>
             /\ Len(contents') = N
             /\ \A i \in 1..N : contents'[i] = urlRead(get_abspath(urls[i]))
             /\ \A i, j \in 1..N : urls[i] = urls[j] => contents'[i] = contents'[j]
       /\ caller = "returned" => contents' = contents]_vars

\* the skip path of parser, the caller's feed consumed to its end through the
\* returned pair: the feed and the source list are what they were at the call
C17_Witness ==
    /\ mode = "parser" /\ skip /\ N >= 1
    /\ Len(kwargs_feed) = MaxFallback
    /\ caller = "returned" /\ result = <<FallbackObj, TRUE>>
    /\ consumer = "exhausted" /\ feedPos = Len(kwargs_feed)
    /\ output = kwargs_feed

Next ==
    \/ parser
    \/ asyncParser
    \/ \E k \in 1..N : url_read_done(k)
    \/ next_call
    \/ fallback_next
    \/ multiplex_next
    \/ abs_urls_next
    \/ contents_read
    \/ contents_next
    \/ contents_list_next
    \/ parsed_next
    \/ entries_next

Spec == Init /\ [][Next]_vars

\* the steps of one next() call on the combined feed
PipelineStep ==
    \/ fallback_next
    \/ multiplex_next
    \/ abs_urls_next
    \/ contents_read
    \/ contents_next
    \/ contents_list_next
    \/ parsed_next
    \/ entries_next

\* The call is made and runs, every read that was started ends, a next() call
\* runs to its return, and the consumer keeps asking for the next entry.
LiveSpec ==
    /\ Spec
    /\ WF_vars(parser \/ asyncParser)
    /\ \A k \in 1..MaxSources : WF_vars(url_read_done(k))
    /\ WF_vars(PipelineStep)
    /\ WF_vars(next_call)
====
